---- MODULE Spec2Model ----
(***************************************************************************)
(* Model of the group expense bot (src/main.py): the cycle calculator, the *)
(* ledger store with its aggregation queries, the entry parser and the     *)
(* reset confirmation machine, with the handlers interleaved at their      *)
(* suspension points (the awaits of reply_text).                           *)
(*                                                                         *)
(* Text is modelled as a sequence of one-character strings, so that        *)
(* formatting, splitting, parsing and the byte-wise comparison of the      *)
(* store are computed as the code computes them.                           *)
(***************************************************************************)
EXTENDS Integers, Sequences, FiniteSets, TLC

VARIABLES
    clock,           \* the wall clock read by now_dt(): an index of Instants
    transactions,    \* table transactions: rows in id order
    resets,          \* table resets: rows in id order
    PENDING_RESETS,  \* (chat_id, user_id) -> pending reset or None
    inflight,        \* handlers suspended at an await, in dispatch order
    begins,          \* number of reset requests accepted so far
    calc,            \* the cycle calculator applied to drawn inputs
    concurrent_updates  \* how many updates the Application handles at a time

vars == <<clock, transactions, resets, PENDING_RESETS, inflight, begins, calc, concurrent_updates>>

(***************************************************************************)
(* Program constants                                                       *)
(***************************************************************************)
CUTOFF_DAY == 6

RESET_EXPIRE_SECONDS == 60

RESET_CONFIRM_TEXT == <<"R", "E", "S", "E", "T">>

TH_TZ == <<"+", "0", "7", ":", "0", "0">>

\* Python's None where a str is optional: no text is equal to it
None == <<"None">>

(***************************************************************************)
(* Text: str as a sequence of characters                                   *)
(***************************************************************************)
DigitChars == <<"0", "1", "2", "3", "4", "5", "6", "7", "8", "9">>

IsDigit(c) == \E i \in 1..10 : DigitChars[i] = c

DigitValue(c) == (CHOOSE i \in 1..10 : DigitChars[i] = c) - 1

\* the characters the model uses, in code point order
CodePoints ==
    <<" ", "+", ",", "-", ".", "/">> \o DigitChars \o
    <<":", "E", "R", "S", "T", "a", "b", "c", "h", "i", "r", "x">>

Ord(c) == CHOOSE i \in 1..Len(CodePoints) : CodePoints[i] = c

RECURSIVE StrLess(_, _)
\* a < b for two strings: SQLite's BINARY collation, Python's str ordering
StrLess(a, b) ==
    IF b = <<>> THEN FALSE
    ELSE IF a = <<>> THEN TRUE
    ELSE IF Head(a) # Head(b) THEN Ord(Head(a)) < Ord(Head(b))
    ELSE StrLess(Tail(a), Tail(b))

RECURSIVE DigitsOf(_)
DigitsOf(n) ==
    IF n < 10 THEN <<DigitChars[n + 1]>>
    ELSE DigitsOf(n \div 10) \o <<DigitChars[(n % 10) + 1]>>

RECURSIVE ZeroPad(_, _)
ZeroPad(s, w) == IF Len(s) >= w THEN s ELSE ZeroPad(<<"0">> \o s, w)

\* f"{n:0wd}": the sign counts towards the width
FormatD(n, w) ==
    IF n >= 0 THEN ZeroPad(DigitsOf(n), w)
    ELSE <<"-">> \o ZeroPad(DigitsOf(-n), w - 1)

RECURSIVE Grouped(_)
\* the digits s with a comma before every group of three from the right
Grouped(s) ==
    IF Len(s) <= 3 THEN s
    ELSE Grouped(SubSeq(s, 1, Len(s) - 3)) \o <<",">> \o SubSeq(s, Len(s) - 2, Len(s))

\* f"{n:,}"
fmt(n) == IF n < 0 THEN <<"-">> \o Grouped(DigitsOf(0 - n)) ELSE Grouped(DigitsOf(n))

RECURSIVE Split(_, _)
\* s.split(sep) for a one-character separator
Split(s, sep) ==
    IF \A i \in 1..Len(s) : s[i] # sep THEN <<s>>
    ELSE LET i == CHOOSE j \in 1..Len(s) :
                      s[j] = sep /\ \A k \in 1..(j - 1) : s[k] # sep
         IN  <<SubSeq(s, 1, i - 1)>> \o Split(SubSeq(s, i + 1, Len(s)), sep)

RECURSIVE DigitsValue(_)
DigitsValue(s) ==
    IF s = <<>> THEN 0
    ELSE 10 * DigitsValue(SubSeq(s, 1, Len(s) - 1)) + DigitValue(s[Len(s)])

IsSpace(c) == c = " "

RECURSIVE LStrip(_)
LStrip(s) == IF s # <<>> /\ IsSpace(Head(s)) THEN LStrip(Tail(s)) ELSE s

RECURSIVE RStrip(_)
RStrip(s) ==
    IF s # <<>> /\ IsSpace(s[Len(s)]) THEN RStrip(SubSeq(s, 1, Len(s) - 1)) ELSE s

\* str.strip()
Strip(s) == LStrip(RStrip(s))

\* int(s) accepts blanks around an optional sign followed by digits
IntOk(s) ==
    LET t    == Strip(s)
        body == IF t # <<>> /\ Head(t) \in {"+", "-"} THEN Tail(t) ELSE t
    IN  body # <<>> /\ \A i \in 1..Len(body) : IsDigit(body[i])

IntOf(s) ==
    LET t == Strip(s)
    IN  IF Head(t) = "-" THEN 0 - DigitsValue(Tail(t))
        ELSE IF Head(t) = "+" THEN DigitsValue(Tail(t))
        ELSE DigitsValue(t)

(***************************************************************************)
(* Calendar: datetime.date, datetime.datetime, timedelta                   *)
(***************************************************************************)
MINYEAR == 1

MAXYEAR == 9999

IsLeap(y) == (y % 4 = 0) /\ ((y % 100 # 0) \/ (y % 400 = 0))

DaysInMonth(y, m) ==
    IF m = 2 THEN (IF IsLeap(y) THEN 29 ELSE 28)
    ELSE IF m \in {4, 6, 9, 11} THEN 30 ELSE 31

\* date(y, m, d) raises ValueError outside these ranges
DateOk(y, m, d) ==
    /\ y \in MINYEAR..MAXYEAR
    /\ m \in 1..12
    /\ d \in 1..DaysInMonth(y, m)

Date(y, m, d) == [year |-> y, month |-> m, day |-> d]

NextDay(d) ==
    IF d.day < DaysInMonth(d.year, d.month) THEN Date(d.year, d.month, d.day + 1)
    ELSE IF d.month < 12 THEN Date(d.year, d.month + 1, 1)
    ELSE Date(d.year + 1, 1, 1)

\* d - timedelta(days=1)
PrevDay(d) ==
    IF d.day > 1 THEN Date(d.year, d.month, d.day - 1)
    ELSE IF d.month > 1 THEN Date(d.year, d.month - 1, DaysInMonth(d.year, d.month - 1))
    ELSE Date(d.year - 1, 12, 31)

RECURSIVE AddDays(_, _)
AddDays(d, n) == IF n = 0 THEN d ELSE AddDays(NextDay(d), n - 1)

DateLE(a, b) ==
    \/ a.year < b.year
    \/ a.year = b.year /\ a.month < b.month
    \/ a.year = b.year /\ a.month = b.month /\ a.day <= b.day

\* a datetime in TH_TZ: its date, the second of the day and the microsecond
DateTime(d, s, us) == [date |-> d, second |-> s, microsecond |-> us]

\* dt + timedelta(seconds=n), n >= 0
AddSeconds(dt, n) ==
    LET total == dt.second + n
    IN  DateTime(AddDays(dt.date, total \div 86400), total % 86400, dt.microsecond)

\* a > b for two datetimes of the same offset
DtGreater(a, b) ==
    \/ a.date # b.date /\ DateLE(b.date, a.date)
    \/ a.date = b.date /\ a.second > b.second
    \/ a.date = b.date /\ a.second = b.second /\ a.microsecond > b.microsecond

\* date.isoformat(): YYYY-MM-DD
DateIso(d) ==
    FormatD(d.year, 4) \o <<"-">> \o FormatD(d.month, 2) \o <<"-">> \o FormatD(d.day, 2)

\* datetime.isoformat(): the fraction is left out when the microsecond is 0
isoformat(dt) ==
    DateIso(dt.date) \o <<"T">>
        \o FormatD(dt.second \div 3600, 2) \o <<":">>
        \o FormatD((dt.second % 3600) \div 60, 2) \o <<":">>
        \o FormatD(dt.second % 60, 2)
        \o (IF dt.microsecond = 0 THEN <<>> ELSE <<".">> \o FormatD(dt.microsecond, 6))
        \o TH_TZ

(***************************************************************************)
(* Cycle calculator                                                        *)
(***************************************************************************)
ValueError == [raised |-> TRUE, value |-> "ValueError"]

Return(v) == [raised |-> FALSE, value |-> v]

\* f"{y:04d}-{m:02d}"
FormatKey(y, m) == FormatD(y, 4) \o <<"-">> \o FormatD(m, 2)

\* y, m = map(int, key.split("-"))
ParseKey(key) ==
    LET parts == Split(key, "-")
    IN  IF Len(parts) = 2 /\ IntOk(parts[1]) /\ IntOk(parts[2])
        THEN Return(<<IntOf(parts[1]), IntOf(parts[2])>>)
        ELSE ValueError

cycle_key_from_date_early(d) ==
    IF d.day > CUTOFF_DAY THEN FormatKey(d.year, d.month)
    ELSE IF d.month = 1 THEN FormatKey(d.year - 1, 12)
    ELSE FormatKey(d.year, d.month - 1)

cycle_key_from_date(d) ==
    IF d.day >= CUTOFF_DAY THEN FormatKey(d.year, d.month)
    ELSE IF d.month = 1 THEN FormatKey(d.year - 1, 12)
    ELSE FormatKey(d.year, d.month - 1)

cycle_range_from_key(key) ==
    LET p == ParseKey(key)
    IN  IF p.raised THEN ValueError
        ELSE LET y  == p.value[1]
                 m  == p.value[2]
                 ny == IF m = 12 THEN y + 1 ELSE y
                 nm == IF m = 12 THEN 1 ELSE m + 1
             IN  IF ~DateOk(y, m, CUTOFF_DAY) THEN ValueError
                 ELSE IF ~DateOk(ny, nm, CUTOFF_DAY) THEN ValueError
                 ELSE Return(<<Date(y, m, CUTOFF_DAY), PrevDay(Date(ny, nm, CUTOFF_DAY))>>)

shift_cycle_key(key, offset_months) ==
    LET p == ParseKey(key)
    IN  IF p.raised THEN ValueError
        ELSE LET total == (p.value[1] * 12 + (p.value[2] - 1)) + offset_months
                 ny    == total \div 12
                 nm    == (total % 12) + 1
             IN  Return(FormatKey(ny, nm))

(***************************************************************************)
(* Ledger store and aggregator: the two tables are sequences in id order   *)
(***************************************************************************)
\* the ids of a table's rows
Ids(table) == 1..Len(table)

Max(S) == CHOOSE i \in S : \A j \in S : j <= i

Min(S) == CHOOSE i \in S : \A j \in S : i <= j

RECURSIVE SumAmount(_, _)
\* SUM(amount) over the rows with the given ids
SumAmount(table, ids) ==
    IF ids = {} THEN 0
    ELSE LET i == Min(ids) IN table[i].amount + SumAmount(table, ids \ {i})

\* if after_ts: an empty string is as false as None
Truthy(s) == s # None /\ s # <<>>

get_last_reset_ts_first(conn, chat_id, cycle_key) ==
    LET ids == {i \in Ids(conn) : LET r == conn[i] IN r.chat_id = chat_id /\ r.cycle_key = cycle_key}
    IN  IF ids = {} THEN None ELSE conn[Min(ids)].reset_ts

\* a lookup that would take the latest marker of the cycle in any group
get_last_reset_ts_any_chat(conn, chat_id, cycle_key) ==
    LET ids == {i \in Ids(conn) : conn[i].cycle_key = cycle_key}
    IN  IF ids = {} THEN None ELSE conn[Max(ids)].reset_ts

\* ORDER BY id DESC LIMIT 1
get_last_reset_ts(conn, chat_id, cycle_key) ==
    LET ids == {i \in Ids(conn) : LET r == conn[i] IN r.chat_id = chat_id /\ r.cycle_key = cycle_key}
    IN  IF ids = {} THEN None ELSE conn[Max(ids)].reset_ts

sum_cycle_inclusive(conn, chat_id, cycle_key, after_ts) ==
    LET scope == {i \in Ids(conn) : LET r == conn[i] IN
                     /\ r.chat_id = chat_id
                     /\ r.cycle_key = cycle_key
                     /\ (Truthy(after_ts) => ~StrLess(r.ts, after_ts))}
    IN  <<SumAmount(conn, {i \in scope : conn[i].sign = "+"}),
          SumAmount(conn, {i \in scope : conn[i].sign = "-"})>>

\* ts > ? compares the two texts
sum_cycle(conn, chat_id, cycle_key, after_ts) ==
    LET scope == {i \in Ids(conn) : LET r == conn[i] IN
                     /\ r.chat_id = chat_id
                     /\ r.cycle_key = cycle_key
                     /\ (Truthy(after_ts) => StrLess(after_ts, r.ts))}
    IN  <<SumAmount(conn, {i \in scope : conn[i].sign = "+"}),
          SumAmount(conn, {i \in scope : conn[i].sign = "-"})>>

RECURSIVE SetToSeq(_)
\* the ids of a selection in ascending order
SetToSeq(ids) ==
    IF ids = {} THEN <<>> ELSE <<Min(ids)>> \o SetToSeq(ids \ {Min(ids)})

\* ORDER BY id ASC
list_today(conn, chat_id, day_key) ==
    LET ids == SetToSeq({i \in Ids(conn) :
                            LET r == conn[i] IN r.chat_id = chat_id /\ r.day_key = day_key})
    IN  [k \in 1..Len(ids) |->
            [sign |-> conn[ids[k]].sign, amount |-> conn[ids[k]].amount,
             detail |-> conn[ids[k]].detail]]

\* a day sum that would leave out the entries not later than the group's
\* reset markers
sum_today_since_reset(conn, chat_id, day_key) ==
    LET scope == {i \in Ids(conn) :
                     /\ conn[i].chat_id = chat_id
                     /\ conn[i].day_key = day_key
                     /\ \A m \in Ids(resets) :
                           resets[m].chat_id = chat_id
                               => StrLess(resets[m].reset_ts, conn[i].ts)}
    IN  <<SumAmount(conn, {i \in scope : conn[i].sign = "+"}),
          SumAmount(conn, {i \in scope : conn[i].sign = "-"})>>

sum_today(conn, chat_id, day_key) ==
    LET scope == {i \in Ids(conn) : LET r == conn[i] IN r.chat_id = chat_id /\ r.day_key = day_key}
    IN  <<SumAmount(conn, {i \in scope : conn[i].sign = "+"}),
          SumAmount(conn, {i \in scope : conn[i].sign = "-"})>>

(***************************************************************************)
(* Entry parser                                                            *)
(***************************************************************************)
RECURSIVE RemoveCommas(_)
\* str.replace(",", "")
RemoveCommas(s) ==
    IF s = <<>> THEN <<>>
    ELSE (IF Head(s) = "," THEN <<>> ELSE <<Head(s)>>) \o RemoveCommas(Tail(s))

StartsWith(s, c) == s # <<>> /\ Head(s) = c

\* TX_PATTERN.match(text) for ^\s*([+-])?\s*(.*?)\s*([0-9][0-9,]*)\s*$
\* over texts of one line: the optional sign is taken when present, the lazy
\* label is the shortest one, so the amount starts at the first position
\* from which a digit followed by digits and commas reaches the (stripped) end
TX_PATTERN_match(text) ==
    LET t      == RStrip(text)
        lead   == Len(text) - Len(LStrip(text))
        signed == lead < Len(t) /\ t[lead + 1] \in {"+", "-"}
        afterS == IF signed THEN lead + 1 ELSE lead
        rest   == SubSeq(t, afterS + 1, Len(t))
        from   == afterS + (Len(rest) - Len(LStrip(rest))) + 1
        starts == {s \in from..Len(t) :
                      /\ IsDigit(t[s])
                      /\ \A k \in s..Len(t) : IsDigit(t[k]) \/ t[k] = ","}
    IN  IF starts = {} THEN [matched |-> FALSE]
        ELSE LET s == Min(starts)
             IN  [matched |-> TRUE,
                  group1  |-> IF signed THEN <<t[lead + 1]>> ELSE None,
                  group2  |-> RStrip(SubSeq(t, from, s - 1)),
                  group3  |-> SubSeq(t, s, Len(t))]

(***************************************************************************)
(* Bounds and the inputs the environment may send                          *)
(***************************************************************************)
MaxTx == 2

MaxBegins == 2

MaxInflight == 2

\* the instants at which the environment lets the clock be read, as
\* seconds and microseconds after the Epoch: the start, the end of a
\* confirmation window opened at the start, and half a second later
Instants == <<[s |-> 0, us |-> 0],
              [s |-> RESET_EXPIRE_SECONDS, us |-> 0],
              [s |-> RESET_EXPIRE_SECONDS, us |-> 500000]>>

\* the service starts half a minute before the cutoff day begins
Epoch == DateTime(Date(2026, 1, 5), 86370, 0)

\* the wall clock at the i-th instant
TimeAt(i) ==
    LET whole == AddSeconds(Epoch, Instants[i].s)
    IN  DateTime(whole.date, whole.second, Instants[i].us)

\* (chat_id, user_id): two groups (negative ids) and one private chat
Senders == {<<-1, 1>>, <<-1, 2>>, <<-2, 1>>, <<1, 1>>}

ChatTypeOf(chat_id) == IF chat_id < 0 THEN "group" ELSE "private"

Expense5 == <<"c", " ", "5">>

Income7 == <<"+", " ", "r", " ", "7">>

Chatter == <<"h", "i">>

\* the text messages the environment sends: the token from everyone, and
\* entries and chatter from some
Messages ==
    (Senders \X {RESET_CONFIRM_TEXT})
        \cup {<<<<-1, 1>>, Expense5>>, <<<<-1, 2>>, Income7>>, <<<<-2, 1>>, Expense5>>,
              <<<<1, 1>>, Expense5>>, <<<<-1, 1>>, Chatter>>}

\* the arguments the environment gives to /month
MonthArgs ==
    { None,
      <<"-", "1">>,
      <<"2", "0", "2", "5", "-", "1", "2">>,
      <<"2", "0", "2", "6", "-", "1", "3">>,
      <<"x">> }

MonthUpdates ==
    (Senders \X {None}) \cup ({<<-1, 1>>} \X MonthArgs)

Update(s, text, arg) ==
    [chat_id |-> s[1], chat_type |-> ChatTypeOf(s[1]), user_id |-> s[2],
     text |-> text, arg |-> arg]

(***************************************************************************)
(* Handlers                                                                *)
(***************************************************************************)
\* datetime.now(TH_TZ)
now_dt == TimeAt(clock)

ensure_group(update) == update.chat_type \in {"group", "supergroup"}

\* dict assignment and dict.pop(key, None)
Put(d, k, v) == [x \in (DOMAIN d) \cup {k} |-> IF x = k THEN v ELSE d[x]]

Pop(d, k) == [x \in (DOMAIN d) \ {k} |-> d[x]]

\* the places where a handler yields to the event loop: every await in the
\* handlers is an await of reply_text; the store is called synchronously
SuspensionPointsWithStore == {"reply_text", "execute"}

SuspensionPoints == {"reply_text"}

\* the handler is suspended at an await with its frame
Suspended(update, handler, pc, now, reply) ==
    [handler |-> handler, chat_id |-> update.chat_id, user_id |-> update.user_id,
     pc |-> pc, now |-> now, reply |-> reply]

\* await update.message.reply_text(reply): nothing the handler read is
\* used after it
Await(update, handler, reply) ==
    inflight' = Append(inflight, Suspended(update, handler, "reply_text", None, reply))

\* an exception leaves the handler: the Application catches it in
\* process_update and logs it, and no reply is sent
Raise(update, handler, error) ==
    inflight' = Append(inflight, Suspended(update, handler, "process_error", None,
                                           [kind |-> "unhandled", error |-> error]))

NOT_GROUP_TEXT == [kind |-> "not_group"]

today_cmd(update) ==
    /\ Len(inflight) < concurrent_updates
    /\ IF ~ensure_group(update)
       THEN Await(update, "today_cmd", NOT_GROUP_TEXT)
       ELSE LET day_key == DateIso(now_dt.date)
                sums    == sum_today(transactions, update.chat_id, day_key)
                items   == list_today(transactions, update.chat_id, day_key)
                net     == sums[1] - sums[2]
                net_str == IF net >= 0 THEN <<"+">> \o fmt(net)
                           ELSE <<"-">> \o fmt(0 - net)
            IN  Await(update, "today_cmd",
                      [kind |-> "today", day_key |-> day_key, income |-> sums[1],
                       expense |-> sums[2], net |-> net, net_str |-> net_str,
                       items |-> items])
    /\ UNCHANGED <<clock, transactions, resets, PENDING_RESETS, begins, calc, concurrent_updates>>

\* re.match(r"^-?\d+$", a)
IsOffsetArg(a) ==
    LET body == IF StartsWith(a, "-") THEN Tail(a) ELSE a
    IN  body # <<>> /\ \A i \in 1..Len(body) : IsDigit(body[i])

\* re.match(r"^\d{4}-\d{2}$", a)
IsKeyArg(a) ==
    /\ Len(a) = 7
    /\ a[5] = "-"
    /\ \A i \in {1, 2, 3, 4, 6, 7} : IsDigit(a[i])

parse_month_arg(arg, current_cycle_key) ==
    IF ~Truthy(arg) THEN Return(current_cycle_key)
    ELSE LET a == Strip(arg)
         IN  IF IsOffsetArg(a) THEN shift_cycle_key(current_cycle_key, IntOf(a))
             ELSE IF IsKeyArg(a) THEN Return(a)
             ELSE ValueError

month_cmd(update) ==
    /\ Len(inflight) < concurrent_updates
    /\ IF ~ensure_group(update)
       THEN Await(update, "month_cmd", NOT_GROUP_TEXT)
       ELSE LET current_key == cycle_key_from_date(now_dt.date)
                parsed      == parse_month_arg(update.arg, current_key)
            IN  IF parsed.raised
                THEN Await(update, "month_cmd", [kind |-> "month_usage"])
                ELSE LET key   == parsed.value
                         range == cycle_range_from_key(key)
                     IN  IF range.raised
                         THEN \* the ValueError leaves the handler: nothing is sent
                              Raise(update, "month_cmd", "ValueError")
                         ELSE LET last_reset == get_last_reset_ts(resets, update.chat_id, key)
                                  sums == sum_cycle(transactions, update.chat_id, key, last_reset)
                              IN  Await(update, "month_cmd",
                                        [kind |-> "month", key |-> key,
                                         start_d |-> range.value[1], end_d |-> range.value[2],
                                         income |-> sums[1], expense |-> sums[2],
                                         bal |-> sums[1] - sums[2],
                                         bal_str |-> fmt(sums[1] - sums[2])])
    /\ UNCHANGED <<clock, transactions, resets, PENDING_RESETS, begins, calc, concurrent_updates>>

ResetPending(chat_id, user_id, expires_at) ==
    [chat_id |-> chat_id, user_id |-> user_id, expires_at |-> expires_at]

\* a reset_cmd that would keep an entry already pending (setdefault)
reset_cmd_keep_first(update) ==
    /\ Len(inflight) < concurrent_updates
    /\ IF ~ensure_group(update)
       THEN /\ Await(update, "reset_cmd", NOT_GROUP_TEXT)
            /\ UNCHANGED <<PENDING_RESETS, begins>>
       ELSE LET now     == now_dt
                key     == <<update.chat_id, update.user_id>>
                range   == cycle_range_from_key(cycle_key_from_date(now.date))
                expires == AddSeconds(now, RESET_EXPIRE_SECONDS)
            IN  /\ begins < MaxBegins
                /\ PENDING_RESETS' =
                      IF key \in DOMAIN PENDING_RESETS THEN PENDING_RESETS
                      ELSE Put(PENDING_RESETS, key,
                               ResetPending(update.chat_id, update.user_id, expires))
                /\ begins' = begins + 1
                /\ Await(update, "reset_cmd",
                         [kind |-> "reset_ask", start_d |-> range.value[1],
                          end_d |-> range.value[2]])
    /\ UNCHANGED <<clock, transactions, resets, calc, concurrent_updates>>

reset_cmd(update) ==
    /\ Len(inflight) < concurrent_updates
    /\ IF ~ensure_group(update)
       THEN /\ Await(update, "reset_cmd", NOT_GROUP_TEXT)
            /\ UNCHANGED <<PENDING_RESETS, begins>>
       ELSE LET now     == now_dt
                key     == cycle_key_from_date(now.date)
                range   == cycle_range_from_key(key)
                expires == AddSeconds(now, RESET_EXPIRE_SECONDS)
            IN  /\ begins < MaxBegins
                /\ PENDING_RESETS' =
                      Put(PENDING_RESETS, <<update.chat_id, update.user_id>>,
                          ResetPending(update.chat_id, update.user_id, expires))
                /\ begins' = begins + 1
                /\ Await(update, "reset_cmd",
                         [kind |-> "reset_ask", start_d |-> range.value[1],
                          end_d |-> range.value[2]])
    /\ UNCHANGED <<clock, transactions, resets, calc, concurrent_updates>>

\* a cancel_cmd that would report the cancellation and leave the entry
cancel_cmd_keep_pending(update) ==
    /\ Len(inflight) < concurrent_updates
    /\ IF ~ensure_group(update)
       THEN Await(update, "cancel_cmd", NOT_GROUP_TEXT)
       ELSE IF <<update.chat_id, update.user_id>> \in DOMAIN PENDING_RESETS
            THEN Await(update, "cancel_cmd", [kind |-> "cancelled"])
            ELSE Await(update, "cancel_cmd", [kind |-> "nothing_pending"])
    /\ UNCHANGED <<clock, transactions, resets, PENDING_RESETS, begins, calc,
                   concurrent_updates>>

cancel_cmd(update) ==
    /\ Len(inflight) < concurrent_updates
    /\ IF ~ensure_group(update)
       THEN /\ Await(update, "cancel_cmd", NOT_GROUP_TEXT)
            /\ UNCHANGED PENDING_RESETS
       ELSE LET key == <<update.chat_id, update.user_id>>
            IN  IF key \in DOMAIN PENDING_RESETS
                THEN /\ PENDING_RESETS' = Pop(PENDING_RESETS, key)
                     /\ Await(update, "cancel_cmd", [kind |-> "cancelled"])
                ELSE /\ UNCHANGED PENDING_RESETS
                     /\ Await(update, "cancel_cmd", [kind |-> "nothing_pending"])
    /\ UNCHANGED <<clock, transactions, resets, begins, calc, concurrent_updates>>

\* an insert that would replace the scope's earlier markers
\* (INSERT OR REPLACE under a (chat_id, cycle_key) key)
InsertReset_replacing(conn, chat_id, cycle_key, now) ==
    LET keep == {i \in 1..Len(conn) :
                    ~(conn[i].chat_id = chat_id /\ conn[i].cycle_key = cycle_key)}
        ids  == SetToSeq(keep)
    IN  Append([k \in 1..Len(ids) |-> conn[ids[k]]],
               [chat_id |-> chat_id, cycle_key |-> cycle_key,
                reset_ts |-> isoformat(now)])

\* INSERT INTO resets (chat_id, cycle_key, reset_ts)
InsertReset(conn, chat_id, cycle_key, now) ==
    Append(conn, [chat_id |-> chat_id, cycle_key |-> cycle_key, reset_ts |-> isoformat(now)])

ResetDone(cycle_key) ==
    LET range == cycle_range_from_key(cycle_key)
    IN  [kind |-> "reset_done", start_d |-> range.value[1], end_d |-> range.value[2]]

\* confirm_reset_if_needed returns True: the text is the token and the
\* sender has a pending reset
ConfirmHandles(update) ==
    /\ ensure_group(update)
    /\ Truthy(update.text)
    /\ Strip(update.text) = RESET_CONFIRM_TEXT
    /\ <<update.chat_id, update.user_id>> \in DOMAIN PENDING_RESETS

confirm_reset_keep_pending(update) ==
    LET key     == <<update.chat_id, update.user_id>>
        pending == PENDING_RESETS[key]
        now     == now_dt
    IN  /\ ConfirmHandles(update)
        /\ IF DtGreater(now, pending.expires_at)
           THEN /\ PENDING_RESETS' = Pop(PENDING_RESETS, key)
                /\ UNCHANGED resets
                /\ Await(update, "record_tx", [kind |-> "reset_expired"])
           ELSE /\ resets' = InsertReset(resets, update.chat_id,
                                         cycle_key_from_date(now.date), now)
                /\ UNCHANGED PENDING_RESETS
                /\ Await(update, "record_tx", ResetDone(cycle_key_from_date(now.date)))
        /\ UNCHANGED <<clock, transactions, begins, calc, concurrent_updates>>

confirm_reset_ignore_expiry(update) ==
    LET key == <<update.chat_id, update.user_id>>
        now == now_dt
    IN  /\ ConfirmHandles(update)
        /\ resets' = InsertReset(resets, update.chat_id, cycle_key_from_date(now.date), now)
        /\ PENDING_RESETS' = Pop(PENDING_RESETS, key)
        /\ Await(update, "record_tx", ResetDone(cycle_key_from_date(now.date)))
        /\ UNCHANGED <<clock, transactions, begins, calc, concurrent_updates>>

\* a confirm that would file the marker under the cycle of the request,
\* the instant the window of the pending entry was opened
confirm_reset_request_cycle(update) ==
    LET key       == <<update.chat_id, update.user_id>>
        pending   == PENDING_RESETS[key]
        now       == now_dt
        requested == TimeAt(CHOOSE i \in 1..Len(Instants) :
                        AddSeconds(TimeAt(i), RESET_EXPIRE_SECONDS) = pending.expires_at)
    IN  /\ ConfirmHandles(update)
        /\ IF DtGreater(now, pending.expires_at)
           THEN /\ PENDING_RESETS' = Pop(PENDING_RESETS, key)
                /\ UNCHANGED resets
                /\ Await(update, "record_tx", [kind |-> "reset_expired"])
           ELSE /\ resets' = InsertReset(resets, update.chat_id,
                                         cycle_key_from_date(requested.date), now)
                /\ PENDING_RESETS' = Pop(PENDING_RESETS, key)
                /\ Await(update, "record_tx", ResetDone(cycle_key_from_date(requested.date)))
        /\ UNCHANGED <<clock, transactions, begins, calc, concurrent_updates>>

confirm_reset_if_needed(update) ==
    LET key     == <<update.chat_id, update.user_id>>
        pending == PENDING_RESETS[key]
        now     == now_dt
    IN  /\ ConfirmHandles(update)
        /\ IF DtGreater(now, pending.expires_at)
           THEN /\ PENDING_RESETS' = Pop(PENDING_RESETS, key)
                /\ UNCHANGED resets
                /\ Await(update, "record_tx", [kind |-> "reset_expired"])
           ELSE IF "execute" \in SuspensionPoints
           THEN \* the handler would yield before the insert, holding what it read
                /\ UNCHANGED <<resets, PENDING_RESETS>>
                /\ inflight' = Append(inflight,
                                      Suspended(update, "record_tx", "execute", now, None))
           ELSE /\ resets' = InsertReset(resets, update.chat_id,
                                         cycle_key_from_date(now.date), now)
                /\ PENDING_RESETS' = Pop(PENDING_RESETS, key)
                /\ Await(update, "record_tx", ResetDone(cycle_key_from_date(now.date)))
        /\ UNCHANGED <<clock, transactions, begins, calc, concurrent_updates>>

\* INSERT INTO transactions (...)
InsertTx(conn, update, t, sign, amount, detail) ==
    Append(conn, [chat_id |-> update.chat_id, ts |-> isoformat(t),
                  day_key |-> DateIso(t.date),
                  cycle_key |-> cycle_key_from_date(t.date),
                  sign |-> sign, amount |-> amount, detail |-> detail,
                  user_id |-> update.user_id])

\* a parse that would take an entry without a sign marker for income
ParseEntry_unsigned_income(raw) ==
    LET text == Strip(raw)
        m    == TX_PATTERN_match(text)
    IN  IF ~Truthy(raw) \/ StartsWith(text, "/") \/ ~m.matched
        THEN [tx |-> FALSE]
        ELSE [tx     |-> TRUE,
              sign   |-> IF m.group1 = <<"-">> THEN "-" ELSE "+",
              amount |-> IntOf(RemoveCommas(m.group3)),
              detail |-> IF m.group2 = <<>> THEN <<"-">> ELSE m.group2]

\* what record_tx makes of the text of a message: no entry, or the sign,
\* amount and detail of the entry
ParseEntry(raw) ==
    LET text == Strip(raw)
        m    == TX_PATTERN_match(text)
    IN  IF ~Truthy(raw) \/ StartsWith(text, "/") \/ ~m.matched
        THEN [tx |-> FALSE]
        ELSE [tx     |-> TRUE,
              sign   |-> IF m.group1 = <<"+">> THEN "+" ELSE "-",
              amount |-> IntOf(RemoveCommas(m.group3)),
              detail |-> IF m.group2 = <<>> THEN <<"-">> ELSE m.group2]

\* record_tx once confirm_reset_if_needed has returned False
RecordEntry(update) ==
    LET p == ParseEntry(update.text)
    IN  IF ~ensure_group(update) \/ ~p.tx
        THEN UNCHANGED vars
        ELSE LET sign   == p.sign
                 detail == p.detail
                 amount == p.amount
                 t      == now_dt
                 key    == cycle_key_from_date(t.date)
                 conn   == InsertTx(transactions, update, t, sign, amount, detail)
                 last_reset == get_last_reset_ts(resets, update.chat_id, key)
                 sums   == sum_cycle(conn, update.chat_id, key, last_reset)
             IN  /\ Len(transactions) < MaxTx
                 /\ transactions' = conn
                 /\ Await(update, "record_tx",
                          [kind |-> "tx_saved", sign |-> sign, amount |-> amount,
                           bal |-> sums[1] - sums[2],
                           bal_str |-> fmt(sums[1] - sums[2])])
                 /\ UNCHANGED <<clock, resets, PENDING_RESETS, begins, calc, concurrent_updates>>

\* a record_tx whose reset machine would not look for a pending entry
record_tx_reset_unasked(update) ==
    /\ Len(inflight) < concurrent_updates
    /\ IF ConfirmHandles(update)
       THEN confirm_reset_if_needed(update)
       ELSE IF /\ ensure_group(update)
               /\ Truthy(update.text)
               /\ Strip(update.text) = RESET_CONFIRM_TEXT
       THEN /\ resets' = InsertReset(resets, update.chat_id,
                                     cycle_key_from_date(now_dt.date), now_dt)
            /\ Await(update, "record_tx", ResetDone(cycle_key_from_date(now_dt.date)))
            /\ UNCHANGED <<clock, transactions, PENDING_RESETS, begins, calc,
                           concurrent_updates>>
       ELSE RecordEntry(update)

record_tx(update) ==
    /\ Len(inflight) < concurrent_updates
    /\ IF ConfirmHandles(update)
       THEN confirm_reset_if_needed(update)
       ELSE RecordEntry(update)

\* the awaited call of a suspended handler completes and the handler runs
\* on to its next await or to its end
Resume(i) ==
    /\ i \in 1..Len(inflight)
    /\ LET f == inflight[i]
       IN  IF f.pc = "execute"
           THEN /\ resets' = InsertReset(resets, f.chat_id,
                                         cycle_key_from_date(f.now.date), f.now)
                /\ PENDING_RESETS' = Pop(PENDING_RESETS, <<f.chat_id, f.user_id>>)
                /\ inflight' = [inflight EXCEPT ![i] =
                                   [f EXCEPT !.pc = "reply_text",
                                             !.reply = ResetDone(cycle_key_from_date(f.now.date))]]
           ELSE /\ inflight' = SubSeq(inflight, 1, i - 1) \o SubSeq(inflight, i + 1, Len(inflight))
                /\ UNCHANGED <<resets, PENDING_RESETS>>
    /\ UNCHANGED <<clock, transactions, begins, calc, concurrent_updates>>

\* time passes: the wall clock never runs backwards
Tick(k) ==
    /\ clock + k <= Len(Instants)
    /\ clock' = clock + k
    /\ UNCHANGED <<transactions, resets, PENDING_RESETS, inflight, begins, calc, concurrent_updates>>

(***************************************************************************)
(* The service                                                             *)
(***************************************************************************)
Init ==
    /\ clock = 1
    /\ transactions = <<>>
    /\ resets = <<>>
    /\ PENDING_RESETS = [k \in {} |-> None]
    /\ inflight = <<>>
    /\ begins = 0
    /\ calc = [stage |-> "off"]
    /\ concurrent_updates = 1

\* Application.builder().token(TOKEN).build() leaves concurrent_updates
\* off (see Init): an update is dispatched when the handler of the one
\* before it has returned
Next ==
    \/ \E s \in Senders : today_cmd(Update(s, None, None))
    \/ \E m \in MonthUpdates : month_cmd(Update(m[1], None, m[2]))
    \/ \E s \in Senders : reset_cmd(Update(s, None, None))
    \/ \E s \in Senders : cancel_cmd(Update(s, None, None))
    \/ \E m \in Messages : record_tx(Update(m[1], m[2], None))
    \/ \E i \in 1..MaxInflight : Resume(i)
    \/ \E k \in 1..2 : Tick(k)

Spec == Init /\ [][Next]_vars

(***************************************************************************)
(* The reset confirmation machine under concurrent dispatch: the handlers  *)
(* of up to MaxInflight updates are interleaved at their awaits            *)
(***************************************************************************)
InitConcurrent ==
    /\ clock = 1
    /\ transactions = <<>>
    /\ resets = <<>>
    /\ PENDING_RESETS = [k \in {} |-> None]
    /\ inflight = <<>>
    /\ begins = 0
    /\ calc = [stage |-> "off"]
    /\ concurrent_updates = MaxInflight

NextConcurrent ==
    \/ \E s \in Senders : reset_cmd(Update(s, None, None))
    \/ \E s \in Senders : cancel_cmd(Update(s, None, None))
    \/ \E s \in Senders : record_tx(Update(s, RESET_CONFIRM_TEXT, None))
    \/ \E i \in 1..MaxInflight : Resume(i)
    \/ \E k \in 1..2 : Tick(k)

SpecConcurrent == InitConcurrent /\ [][NextConcurrent]_vars

(***************************************************************************)
(* The reset confirmation machine over a store whose writes may fail       *)
(***************************************************************************)
\* a confirm that would evict the pending entry before writing the marker
confirm_reset_pop_before_write(update) ==
    LET key == <<update.chat_id, update.user_id>>
    IN  /\ Len(inflight) < concurrent_updates
        /\ ConfirmHandles(update)
        /\ ~DtGreater(now_dt, PENDING_RESETS[key].expires_at)
        /\ PENDING_RESETS' = Pop(PENDING_RESETS, key)
        /\ Raise(update, "record_tx", "sqlite3.Error")
        /\ UNCHANGED <<clock, transactions, resets, begins, calc, concurrent_updates>>

\* record_tx with the token, in time, when the INSERT of the marker or its
\* commit raises: the exception leaves confirm_reset_if_needed before the
\* pop and the reply, the connection rolls back
confirm_reset_write_fails(update) ==
    LET key == <<update.chat_id, update.user_id>>
    IN  /\ Len(inflight) < concurrent_updates
        /\ ConfirmHandles(update)
        /\ ~DtGreater(now_dt, PENDING_RESETS[key].expires_at)
        /\ Raise(update, "record_tx", "sqlite3.Error")
        /\ UNCHANGED <<clock, transactions, resets, PENDING_RESETS, begins, calc,
                       concurrent_updates>>

NextFaulty ==
    \/ \E s \in Senders : reset_cmd(Update(s, None, None))
    \/ \E s \in Senders : cancel_cmd(Update(s, None, None))
    \/ \E s \in Senders : record_tx(Update(s, RESET_CONFIRM_TEXT, None))
    \/ \E s \in Senders : confirm_reset_write_fails(Update(s, RESET_CONFIRM_TEXT, None))
    \/ \E i \in 1..MaxInflight : Resume(i)
    \/ \E k \in 1..2 : Tick(k)

SpecFaulty == Init /\ [][NextFaulty]_vars

(***************************************************************************)
(* The cycle calculator applied to drawn dates and offsets                 *)
(***************************************************************************)
\* dates at both ends of the calendar and around the cutoff day
CalcDates ==
    {Date(y, m, d) : y \in {MINYEAR, 2025, 2026, MAXYEAR}, m \in {1, 2, 12},
                     d \in {1, CUTOFF_DAY - 1, CUTOFF_DAY, CUTOFF_DAY + 1, 28}}

CalcOffsets == {-24313, -13, -12, -1, 0, 1, 11, 12, 25}

InitCalc ==
    /\ clock = 1
    /\ transactions = <<>>
    /\ resets = <<>>
    /\ PENDING_RESETS = [k \in {} |-> None]
    /\ inflight = <<>>
    /\ begins = 0
    /\ concurrent_updates = 1
    /\ \E d \in CalcDates, n \in CalcOffsets :
          calc = [stage |-> "input", d |-> d, n |-> n, key |-> None,
                  range |-> None, shifted |-> None, back |-> None]

CalcFrame == UNCHANGED <<clock, transactions, resets, PENDING_RESETS, inflight,
                         begins, concurrent_updates>>

CalcKey ==
    /\ calc.stage = "input"
    /\ calc' = [calc EXCEPT !.stage = "key", !.key = cycle_key_from_date(calc.d)]
    /\ CalcFrame

CalcRange ==
    /\ calc.stage = "key"
    /\ calc' = [calc EXCEPT !.stage = "range", !.range = cycle_range_from_key(calc.key)]
    /\ CalcFrame

CalcShift ==
    /\ calc.stage = "key"
    /\ calc' = [calc EXCEPT !.stage = "shifted",
                            !.shifted = shift_cycle_key(calc.key, calc.n)]
    /\ CalcFrame

CalcShiftBack ==
    /\ calc.stage = "shifted"
    /\ calc' = [calc EXCEPT !.stage = "back",
                            !.back = IF calc.shifted.raised THEN ValueError
                                     ELSE shift_cycle_key(calc.shifted.value, 0 - calc.n)]
    /\ CalcFrame

NextCalc == CalcKey \/ CalcRange \/ CalcShift \/ CalcShiftBack

SpecCalc == InitCalc /\ [][NextCalc]_vars

(***************************************************************************)
(* The entry parser applied to drawn lines                                 *)
(***************************************************************************)
MaxLineLen == 4

\* sign markers, blank, a letter, digits, the grouping separator and the
\* command prefix
LineChars == {"+", "-", " ", "c", "5", "0", ",", "/"}

Lines == UNION {[1..n -> LineChars] : n \in 0..MaxLineLen}

InitParse ==
    /\ clock = 1
    /\ transactions = <<>>
    /\ resets = <<>>
    /\ PENDING_RESETS = [k \in {} |-> None]
    /\ inflight = <<>>
    /\ begins = 0
    /\ concurrent_updates = 1
    /\ \E t \in Lines : calc = [stage |-> "line", text |-> t, entry |-> None]

ParseLine ==
    /\ calc.stage = "line"
    /\ calc' = [calc EXCEPT !.stage = "parsed", !.entry = ParseEntry(calc.text)]
    /\ CalcFrame

NextParse == ParseLine

SpecParse == InitParse /\ [][NextParse]_vars

(***************************************************************************)
(* Claims about the cycle calculator (SpecCalc)                            *)
(***************************************************************************)
\* the month before (y, m): December of y - 1 before January
PrevMonth(y, m) == IF m = 1 THEN <<y - 1, 12>> ELSE <<y, m - 1>>

\* C4: cycle_key_from_date(d) names d's own year and month when
\* d.day >= CUTOFF_DAY, and the month before otherwise, December of the year
\* before when d is in January
C4_KeyOfDate ==
    calc.stage = "key" =>
        LET p == ParseKey(calc.key)
        IN  /\ ~p.raised
            /\ p.value = IF calc.d.day >= CUTOFF_DAY
                         THEN <<calc.d.year, calc.d.month>>
                         ELSE PrevMonth(calc.d.year, calc.d.month)

\* C4 witness: the key of a date on the cutoff day itself is its own month,
\* and the key of an early-January date is December of the year before
C4_Witness ==
    /\ calc.stage = "key"
    /\ \/ calc.d = Date(2026, 2, CUTOFF_DAY) /\ calc.key = FormatKey(2026, 2)
       \/ calc.d = Date(2026, 1, CUTOFF_DAY - 1) /\ calc.key = FormatKey(2025, 12)

\* C5: for every calendar date d, the inclusive range that
\* cycle_range_from_key returns for cycle_key_from_date(d) contains d
C5_RangeContainsEveryDate ==
    calc.stage = "range" =>
        /\ ~calc.range.raised
        /\ DateLE(calc.range.value[1], calc.d)
        /\ DateLE(calc.d, calc.range.value[2])

\* C6: for every cycle key k and every integer n,
\* shift_cycle_key(shift_cycle_key(k, n), -n) = k
C6_ShiftRoundTrip ==
    calc.stage = "back" => (~calc.back.raised /\ calc.back.value = calc.key)

(***************************************************************************)
(* Claims about the entry parser (SpecParse)                               *)
(***************************************************************************)
RECURSIVE AmountValue(_)
\* the number written by the digits of t, its grouping separators skipped
AmountValue(t) ==
    IF t = <<>> THEN 0
    ELSE IF t[Len(t)] = "," THEN AmountValue(SubSeq(t, 1, Len(t) - 1))
    ELSE 10 * AmountValue(SubSeq(t, 1, Len(t) - 1)) + DigitValue(t[Len(t)])

\* the length of the longest run of digits and separators a line ends in
RECURSIVE TrailingRun(_)
TrailingRun(s) ==
    IF s = <<>> \/ ~(IsDigit(s[Len(s)]) \/ s[Len(s)] = ",") THEN 0
    ELSE 1 + TrailingRun(SubSeq(s, 1, Len(s) - 1))

\* the classification of a line: its trailing amount runs from the first
\* digit of the trailing run to the end of the trimmed line
Classified(line) ==
    LET s      == Strip(line)
        run    == SubSeq(s, Len(s) - TrailingRun(s) + 1, Len(s))
        digits == {p \in 1..Len(run) : IsDigit(run[p])}
    IN  IF digits = {} \/ s[1] = "/" THEN [tx |-> FALSE]
        ELSE LET first  == Len(s) - Len(run) + Min(digits)
                 marked == s[1] \in {"+", "-"}
                 label  == Strip(SubSeq(s, IF marked THEN 2 ELSE 1, first - 1))
             IN  [tx     |-> TRUE,
                  sign   |-> IF s[1] = "+" THEN "+" ELSE "-",
                  amount |-> AmountValue(SubSeq(s, first, Len(s))),
                  detail |-> IF label = <<>> THEN <<"-">> ELSE label]

\* C16: a line with a trailing amount is an entry, income exactly when it
\* starts with '+', with the amount read without its grouping separators
\* and the trimmed text between sign and amount, or the placeholder, as its
\* label; a line without a trailing amount or starting with '/' is no entry
C16_ParserClassifiesLines ==
    calc.stage = "parsed" =>
        /\ calc.entry = Classified(calc.text)
        /\ calc.entry.tx => calc.entry.amount >= 0

\* C16 witness: an income line with a grouped amount and no label
C16_Witness ==
    /\ calc.stage = "parsed"
    /\ calc.text = <<"+", "5", ",", "0">>
    /\ calc.entry = [tx |-> TRUE, sign |-> "+", amount |-> 50, detail |-> <<"-">>]

(***************************************************************************)
(* Claims about the ledger and the reset confirmation machine (Spec)       *)
(***************************************************************************)
\* the instant a stored timestamp text denotes (datetime.fromisoformat)
TimeOfText(ts) ==
    DateTime(Date(DigitsValue(SubSeq(ts, 1, 4)), DigitsValue(SubSeq(ts, 6, 7)),
                  DigitsValue(SubSeq(ts, 9, 10))),
             3600 * DigitsValue(SubSeq(ts, 12, 13)) + 60 * DigitsValue(SubSeq(ts, 15, 16))
                 + DigitsValue(SubSeq(ts, 18, 19)),
             IF ts[20] = "." THEN DigitsValue(SubSeq(ts, 21, 26)) ELSE 0)

Groups == {s[1] : s \in {x \in Senders : ChatTypeOf(x[1]) = "group"}}

CycleKeys == {FormatKey(2025, 12), FormatKey(2026, 1)}

IsPrefix(a, b) == Len(a) <= Len(b) /\ SubSeq(b, 1, Len(a)) = a

\* the pending table after the step is the table before it without key
Evicted(key) ==
    /\ DOMAIN PENDING_RESETS' = DOMAIN PENDING_RESETS \ {key}
    /\ \A o \in DOMAIN PENDING_RESETS' : PENDING_RESETS'[o] = PENDING_RESETS[o]

\* the step sends one reply of the given kind
Replies(kind) ==
    /\ Len(inflight') = Len(inflight) + 1
    /\ inflight'[Len(inflight')].reply.kind = kind

\* the step appends exactly one marker, for this chat at the current time
AppendsMarker(chat_id) ==
    /\ Len(resets') = Len(resets) + 1
    /\ IsPrefix(resets, resets')
    /\ resets'[Len(resets')].chat_id = chat_id
    /\ TimeOfText(resets'[Len(resets')].reset_ts) = now_dt

C1_ConfirmOutcome(key) ==
    IF key \notin DOMAIN PENDING_RESETS
    THEN UNCHANGED vars
    ELSE IF DtGreater(now_dt, PENDING_RESETS[key].expires_at)
    THEN resets' = resets /\ Evicted(key) /\ Replies("reset_expired")
    ELSE AppendsMarker(key[1]) /\ Evicted(key) /\ Replies("reset_done")

\* C1: the token from a requester with a pending reset, sent after the
\* expiry, appends no marker, evicts the entry and reports the window as
\* lapsed; sent at or before the expiry it appends exactly one marker and
\* evicts the entry; the token from a requester with nothing pending (as
\* after either outcome) changes nothing
C1_ConfirmBeforeAndAfterExpiry ==
    [][\A key \in Senders :
          record_tx(Update(key, RESET_CONFIRM_TEXT, None)) => C1_ConfirmOutcome(key)]_vars

\* C1 witness: one reset was confirmed in time and a later one was answered
\* as lapsed, its entry evicted and no second marker appended
C1_Witness ==
    /\ Len(resets) = 1
    /\ begins = 2
    /\ Len(inflight) = 1
    /\ inflight[1].reply.kind = "reset_expired"
    /\ <<inflight[1].chat_id, inflight[1].user_id>> \notin DOMAIN PENDING_RESETS

\* C2: markers and pending entries together never outnumber the begins, and
\* a marker is only ever appended by a step that removes a pending entry of
\* a requester of the marker's group
C2_MarkersComeFromBegins ==
    /\ [](Len(resets) + Cardinality(DOMAIN PENDING_RESETS) <= begins)
    /\ [][resets' # resets =>
            \E key \in DOMAIN PENDING_RESETS : AppendsMarker(key[1]) /\ Evicted(key)]_vars

\* C2 witness: every begin has been turned into a marker
C2_Witness ==
    /\ begins = MaxBegins
    /\ Len(resets) = MaxBegins
    /\ DOMAIN PENDING_RESETS = {}

\* the entries of a group and cycle, and those later than the instant T
EntriesOf(g, k) ==
    {i \in 1..Len(transactions) :
        transactions[i].chat_id = g /\ transactions[i].cycle_key = k}

EntriesAfter(g, k, T) ==
    {i \in EntriesOf(g, k) : DtGreater(TimeOfText(transactions[i].ts), T)}

Totals(ids) ==
    <<SumAmount(transactions, {i \in ids : transactions[i].sign = "+"}),
      SumAmount(transactions, {i \in ids : transactions[i].sign = "-"})>>

\* C3: for every group, cycle and floor instant T, sum_cycle with
\* after_ts = T totals exactly the entries of the group and cycle whose
\* time is strictly later than T, and with no floor all of them
C3_SumCycleStrictlyAfterFloor ==
    \A g \in Groups, k \in CycleKeys :
        /\ sum_cycle(transactions, g, k, None) = Totals(EntriesOf(g, k))
        /\ \A i \in 1..Len(Instants) :
              sum_cycle(transactions, g, k, isoformat(TimeAt(i)))
                  = Totals(EntriesAfter(g, k, TimeAt(i)))

\* C3 witness: a marker with an entry recorded at the marker's very instant
\* and an entry recorded later, in one group and cycle: the floor leaves
\* only the later entry in the totals
C3_Witness ==
    \E m \in 1..Len(resets), i, j \in 1..Len(transactions) :
        /\ transactions[i].chat_id = resets[m].chat_id
        /\ transactions[j].chat_id = resets[m].chat_id
        /\ transactions[i].cycle_key = resets[m].cycle_key
        /\ transactions[j].cycle_key = resets[m].cycle_key
        /\ transactions[i].ts = resets[m].reset_ts
        /\ DtGreater(TimeOfText(transactions[j].ts), TimeOfText(resets[m].reset_ts))
        /\ sum_cycle(transactions, resets[m].chat_id, resets[m].cycle_key,
                     resets[m].reset_ts) = Totals({j})

MarkersOf(g, k) ==
    {i \in 1..Len(resets) : resets[i].chat_id = g /\ resets[i].cycle_key = k}

\* C7: get_last_reset_ts returns None exactly for a group and cycle without
\* markers, and otherwise the timestamp of a marker of that scope than
\* which no marker of the scope is later
C7_LatestMarkerIsHighest ==
    \A g \in Groups, k \in CycleKeys :
        LET got == get_last_reset_ts(resets, g, k)
        IN  IF MarkersOf(g, k) = {} THEN got = None
            ELSE /\ got # None
                 /\ \E i \in MarkersOf(g, k) : resets[i].reset_ts = got
                 /\ \A j \in MarkersOf(g, k) :
                       ~DtGreater(TimeOfText(resets[j].reset_ts), TimeOfText(got))

\* C7 witness: two markers of one group and cycle taken at different
\* instants, the later one returned
C7_Witness ==
    \E i, j \in 1..Len(resets) :
        /\ resets[i].chat_id = resets[j].chat_id
        /\ resets[i].cycle_key = resets[j].cycle_key
        /\ DtGreater(TimeOfText(resets[j].reset_ts), TimeOfText(resets[i].reset_ts))
        /\ get_last_reset_ts(resets, resets[i].chat_id, resets[i].cycle_key)
               = resets[j].reset_ts

\* C8: every step leaves the rows of both tables in place and unchanged:
\* the tables only grow at their ends
C8_LedgerAppendOnly ==
    [][IsPrefix(transactions, transactions') /\ IsPrefix(resets, resets')]_vars

\* C8 witness: after a confirmed reset and a second marker in the scope,
\* the entry recorded before them is still stored, with the first marker,
\* while the cycle totals under the floor no longer count it
C8_Witness ==
    \E g \in Groups, k \in CycleKeys :
        /\ Cardinality(MarkersOf(g, k)) = 2
        /\ EntriesOf(g, k) # {}
        /\ sum_cycle(transactions, g, k, None) # <<0, 0>>
        /\ sum_cycle(transactions, g, k, get_last_reset_ts(resets, g, k)) = <<0, 0>>

C9_BeginOutcome(key) ==
    /\ DOMAIN PENDING_RESETS' = DOMAIN PENDING_RESETS \cup {key}
    /\ PENDING_RESETS'[key].chat_id = key[1]
    /\ PENDING_RESETS'[key].user_id = key[2]
    /\ PENDING_RESETS'[key].expires_at = AddSeconds(now_dt, RESET_EXPIRE_SECONDS)
    /\ \A o \in DOMAIN PENDING_RESETS \ {key} : PENDING_RESETS'[o] = PENDING_RESETS[o]

\* C9: a /reset from a group requester at time now leaves the pair with one
\* pending entry expiring at now + RESET_EXPIRE_SECONDS whatever was pending
\* before, and leaves the entries of all other pairs as they were; a marker
\* is appended only while the entry then in the table has not expired
C9_BeginRestartsWindow ==
    /\ [][\A key \in Senders :
            (ChatTypeOf(key[1]) = "group" /\ reset_cmd(Update(key, None, None)))
                => C9_BeginOutcome(key)]_vars
    /\ [][resets' # resets =>
            \E key \in DOMAIN PENDING_RESETS :
                /\ key \notin DOMAIN PENDING_RESETS'
                /\ ~DtGreater(now_dt, PENDING_RESETS[key].expires_at)]_vars

\* C9 witness: the second /reset has just been answered at the instant the
\* first window ended, and the only pending entry expires a full window
\* after it
C9_Witness ==
    /\ clock = 2
    /\ begins = 2
    /\ resets = <<>>
    /\ Len(inflight) = 1
    /\ inflight[1].handler = "reset_cmd"
    /\ DOMAIN PENDING_RESETS = {<<inflight[1].chat_id, inflight[1].user_id>>}
    /\ \A key \in DOMAIN PENDING_RESETS :
          PENDING_RESETS[key].expires_at = AddSeconds(TimeAt(2), RESET_EXPIRE_SECONDS)

\* C11: the token from a sender with no pending entry changes nothing: no
\* marker, no change of the pending table, no reply, no entry
C11_TokenWithoutPendingFallsThrough ==
    [][\A key \in Senders :
          (/\ key \notin DOMAIN PENDING_RESETS
           /\ record_tx(Update(key, RESET_CONFIRM_TEXT, None))) => UNCHANGED vars]_vars

\* C11 witness: one group requester has a reset pending and is idle while
\* time has passed: the other senders' tokens have had no pending entry
\* to meet and nothing of theirs is stored or in flight
C11_Witness ==
    /\ clock = Len(Instants)
    /\ begins = 1
    /\ DOMAIN PENDING_RESETS = {<<-1, 1>>}
    /\ resets = <<>>
    /\ transactions = <<>>
    /\ inflight = <<>>

\* C12: /cancel from a group requester evicts the pair's entry and reports
\* the cancellation when one is pending, and otherwise leaves the table as
\* it is and reports that nothing is pending; either way both tables and
\* the other pairs' entries stay as they were, and the pair has nothing
\* pending afterwards for a token to confirm
C12_CancelOutcome ==
    [][\A key \in Senders :
          (ChatTypeOf(key[1]) = "group" /\ cancel_cmd(Update(key, None, None))) =>
              /\ transactions' = transactions
              /\ resets' = resets
              /\ key \notin DOMAIN PENDING_RESETS'
              /\ IF key \in DOMAIN PENDING_RESETS
                 THEN Evicted(key) /\ Replies("cancelled")
                 ELSE PENDING_RESETS' = PENDING_RESETS /\ Replies("nothing_pending")]_vars

\* C12 witness: a cancellation has just been reported to one requester
\* while another pair's reset is still pending
C12_Witness ==
    /\ Len(inflight) = 1
    /\ inflight[1].handler = "cancel_cmd"
    /\ inflight[1].reply.kind = "cancelled"
    /\ <<inflight[1].chat_id, inflight[1].user_id>> \notin DOMAIN PENDING_RESETS
    /\ DOMAIN PENDING_RESETS # {}
    /\ begins = 2
    /\ resets = <<>>

\* the year and month of the cycle a date lies in
CycleOf(d) ==
    IF d.day >= CUTOFF_DAY THEN <<d.year, d.month>> ELSE PrevMonth(d.year, d.month)

\* the cycle totals a summary of the group and cycle would report, given
\* the two tables
CycleBalance(tx, rs, g, k) == sum_cycle(tx, g, k, get_last_reset_ts(rs, g, k))

\* C13: every marker is filed under the cycle of its own timestamp, which
\* is the time of the confirm that appended it, and appending it leaves the
\* totals of every other cycle of its group as they were
C13_MarkerCycleIsConfirmCycle ==
    /\ [](\A i \in 1..Len(resets) :
             ParseKey(resets[i].cycle_key).value
                 = CycleOf(TimeOfText(resets[i].reset_ts).date))
    /\ [][resets' # resets =>
            LET marker == resets'[Len(resets')]
            IN  /\ TimeOfText(marker.reset_ts) = now_dt
                /\ \A k \in CycleKeys \ {marker.cycle_key} :
                      CycleBalance(transactions', resets', marker.chat_id, k)
                          = CycleBalance(transactions, resets, marker.chat_id, k)]_vars

\* C13 witness: a reset confirmed half a minute into the new cycle: the
\* marker is filed under the new cycle, and the entry recorded the evening
\* before still counts in the totals of the cycle before
C13_Witness ==
    /\ clock = 2
    /\ begins = 1
    /\ Len(inflight) = 1
    /\ inflight[1].reply.kind = "reset_done"
    /\ Len(resets) = 1
    /\ resets[1].cycle_key = FormatKey(2026, 1)
    /\ \E i \in 1..Len(transactions) :
          /\ transactions[i].chat_id = resets[1].chat_id
          /\ transactions[i].cycle_key = FormatKey(2025, 12)
    /\ CycleBalance(transactions, resets, resets[1].chat_id, FormatKey(2025, 12))
           # <<0, 0>>

\* the calendar days the clock shows
Days == {TimeAt(i).date : i \in 1..Len(Instants)}

\* the entries of a group recorded on a day
DayEntries(g, d) ==
    {i \in 1..Len(transactions) :
        transactions[i].chat_id = g /\ TimeOfText(transactions[i].ts).date = d}

\* the entries of a group and cycle later than every marker of that scope
EntriesSinceReset(g, k) ==
    {i \in EntriesOf(g, k) :
        \A m \in MarkersOf(g, k) :
            DtGreater(TimeOfText(transactions[i].ts), TimeOfText(resets[m].reset_ts))}

\* C14: whatever markers are stored, the day sums and the day listing of a
\* group cover every entry of the group and day, and so does a /today
\* reply, while a /month reply totals only the entries later than the
\* latest marker of its group and cycle
C14_DaySummaryIgnoresResets ==
    /\ \A g \in Groups, d \in Days :
          /\ sum_today(transactions, g, DateIso(d)) = Totals(DayEntries(g, d))
          /\ Len(list_today(transactions, g, DateIso(d))) = Cardinality(DayEntries(g, d))
    /\ \A f \in 1..Len(inflight) :
          LET r == inflight[f].reply
          IN  /\ r.kind = "today" =>
                    \E d \in Days :
                        /\ DateIso(d) = r.day_key
                        /\ <<r.income, r.expense>>
                               = Totals(DayEntries(inflight[f].chat_id, d))
                        /\ Len(r.items) = Cardinality(DayEntries(inflight[f].chat_id, d))
              /\ r.kind = "month" =>
                    <<r.income, r.expense>>
                        = Totals(EntriesSinceReset(inflight[f].chat_id, r.key))

\* C14 witness: a /today reply that counts an entry of a day on which a
\* later reset has emptied the totals of the cycle
C14_Witness ==
    \E f \in 1..Len(inflight) :
        LET r == inflight[f].reply
            g == inflight[f].chat_id
        IN  /\ r.kind = "today"
            /\ r.expense > 0
            /\ \E k \in CycleKeys :
                  /\ MarkersOf(g, k) # {}
                  /\ EntriesOf(g, k) # {}
                  /\ \A i \in EntriesOf(g, k) : transactions[i].day_key = r.day_key
                  /\ CycleBalance(transactions, resets, g, k) = <<0, 0>>

\* an argument of /month that is neither absent, nor an integer offset, nor
\* a key YYYY-MM of a year and month of the calendar
MalformedMonthArg(arg) ==
    LET a == Strip(arg)
        digits(t) == t # <<>> /\ \A i \in 1..Len(t) : IsDigit(t[i])
        offset == digits(a) \/ (StartsWith(a, "-") /\ digits(Tail(a)))
        cycle  == /\ Len(a) = 7
                  /\ a[5] = "-"
                  /\ digits(SubSeq(a, 1, 4))
                  /\ digits(SubSeq(a, 6, 7))
                  /\ DigitsValue(SubSeq(a, 1, 4)) \in MINYEAR..MAXYEAR
                  /\ DigitsValue(SubSeq(a, 6, 7)) \in 1..12
    IN  arg # None /\ arg # <<>> /\ ~offset /\ ~cycle

\* C15: /month with a malformed argument, sent in a group, is answered with
\* the usage guidance
C15_MalformedMonthArgRejected ==
    [][\A m \in MonthUpdates :
          (/\ ChatTypeOf(m[1][1]) = "group"
           /\ MalformedMonthArg(m[2])
           /\ month_cmd(Update(m[1], None, m[2]))) => Replies("month_usage")]_vars

\* the text shows the balance n with an explicit sign
ShownSigned(text, n) == text # <<>> /\ Head(text) = (IF n >= 0 THEN "+" ELSE "-")

\* C17: every reply that reports a net balance reports income - expense
\* and shows it with '+' when it is not negative and with '-' when it is
C17_BalanceShownWithExplicitSign ==
    \A f \in 1..Len(inflight) :
        LET r == inflight[f].reply
        IN  /\ r.kind = "today" =>
                  r.net = r.income - r.expense /\ ShownSigned(r.net_str, r.net)
            /\ r.kind = "month" =>
                  r.bal = r.income - r.expense /\ ShownSigned(r.bal_str, r.bal)
            /\ r.kind = "tx_saved" => ShownSigned(r.bal_str, r.bal)

\* C18: while the acknowledgement of a recorded entry is being sent, the
\* balance it reports is the balance of the earlier entries of the group
\* and cycle recorded since the latest reset, plus the new amount for
\* income and minus it for expense
C18_AckBalanceCountsNewEntry ==
    \A f \in 1..Len(inflight) :
        inflight[f].reply.kind = "tx_saved" =>
            LET new   == Len(transactions)
                e     == transactions[new]
                prior == Totals(EntriesSinceReset(e.chat_id, e.cycle_key) \ {new})
            IN  inflight[f].reply.bal =
                    (prior[1] - prior[2])
                        + (IF e.sign = "+" THEN e.amount ELSE 0 - e.amount)

\* C20: a token from one sender leaves the pending entries of all other
\* pairs in place and unchanged and appends a marker only when the sender's
\* own pair has an entry; the marker is of the sender's group, and the
\* totals of every other group and of every other cycle than the one of the
\* confirmation time stay as they were
C20_ResetIsolatedPerKey ==
    [][\A key \in Senders :
          record_tx(Update(key, RESET_CONFIRM_TEXT, None)) =>
              /\ \A o \in DOMAIN PENDING_RESETS \ {key} :
                    o \in DOMAIN PENDING_RESETS' /\ PENDING_RESETS'[o] = PENDING_RESETS[o]
              /\ resets' # resets =>
                    LET now_cycle == CycleOf(now_dt.date)
                        target    == <<key[1], FormatKey(now_cycle[1], now_cycle[2])>>
                    IN  /\ key \in DOMAIN PENDING_RESETS
                        /\ resets'[Len(resets')].chat_id = key[1]
                        /\ \A g \in Groups, k \in CycleKeys :
                              <<g, k>> # target =>
                                  CycleBalance(transactions', resets', g, k)
                                      = CycleBalance(transactions, resets, g, k)]_vars

\* C20 witness: a reset has just been confirmed in one group while another
\* requester of the same group still has a reset pending and another group
\* has an earlier entry in the same cycle, which its totals still count
C20_Witness ==
    /\ Len(inflight) = 1
    /\ inflight[1].reply.kind = "reset_done"
    /\ Len(resets) = 1
    /\ \E o \in DOMAIN PENDING_RESETS :
          o[1] = resets[1].chat_id /\ o[2] # inflight[1].user_id
    /\ \E i \in 1..Len(transactions) :
          /\ transactions[i].chat_id # resets[1].chat_id
          /\ transactions[i].cycle_key = resets[1].cycle_key
          /\ ~DtGreater(TimeOfText(transactions[i].ts), TimeOfText(resets[1].reset_ts))
          /\ CycleBalance(transactions, resets, transactions[i].chat_id,
                          resets[1].cycle_key) # <<0, 0>>

(***************************************************************************)
(* Claims about a failing store (SpecFaulty)                               *)
(***************************************************************************)
\* C19: a confirm whose write of the marker fails stores no marker, sends
\* no reply and leaves the pending table, the requester's entry and its
\* expiry included, as it was; every confirm whose write succeeds still
\* has the outcome of a first confirm, one marker while the window is open,
\* and markers and pending entries never outnumber the begins
C19_FailedWriteKeepsPending ==
    /\ [][\A key \in Senders :
            confirm_reset_write_fails(Update(key, RESET_CONFIRM_TEXT, None)) =>
                /\ resets' = resets
                /\ PENDING_RESETS' = PENDING_RESETS
                /\ key \in DOMAIN PENDING_RESETS'
                /\ Replies("unhandled")]_vars
    /\ [][\A key \in Senders :
            record_tx(Update(key, RESET_CONFIRM_TEXT, None)) => C1_ConfirmOutcome(key)]_vars
    /\ [](Len(resets) + Cardinality(DOMAIN PENDING_RESETS) <= begins)

\* C19 witness: a confirm has just failed at its write, at the last
\* instant of the window opened at the start: no marker is stored and the
\* requester's entry is pending with the expiry the begin gave it
C19_Witness ==
    /\ clock = 2
    /\ begins = 1
    /\ resets = <<>>
    /\ Len(inflight) = 1
    /\ inflight[1].handler = "record_tx"
    /\ inflight[1].reply.kind = "unhandled"
    /\ DOMAIN PENDING_RESETS = {<<inflight[1].chat_id, inflight[1].user_id>>}
    /\ \A key \in DOMAIN PENDING_RESETS :
          PENDING_RESETS[key].expires_at = AddSeconds(TimeAt(1), RESET_EXPIRE_SECONDS)

(***************************************************************************)
(* Claims about concurrent dispatch (SpecConcurrent)                       *)
(***************************************************************************)
\* every entry of the table is a whole ResetPending of its own pair, with
\* the expiry of a window opened at an instant the clock has shown
PendingWellFormed ==
    \A key \in DOMAIN PENDING_RESETS :
        \E i \in 1..clock :
            PENDING_RESETS[key] =
                ResetPending(key[1], key[2], AddSeconds(TimeAt(i), RESET_EXPIRE_SECONDS))

\* no handler in flight is parked between its lookup in the table and its
\* eviction: each has finished with the table and only owes its reply
TableAccessDone == \A i \in 1..Len(inflight) : inflight[i].pc = "reply_text"

\* C10: with the handlers of begin, cancel and confirm interleaved at their
\* suspension points, every observable state has each pending entry whole
\* and with a proper expiry, no handler is suspended between its lookup and
\* its eviction (so the handlers' table accesses happen in a serial order),
\* and a marker is appended only in a step that finds the requester's entry
\* in the table, unexpired, and evicts it
C10_BeginConfirmSerializable ==
    /\ [](PendingWellFormed /\ TableAccessDone)
    /\ [](Len(resets) + Cardinality(DOMAIN PENDING_RESETS) <= begins)
    /\ [][resets' # resets =>
            \E key \in DOMAIN PENDING_RESETS :
                /\ ~DtGreater(now_dt, PENDING_RESETS[key].expires_at)
                /\ AppendsMarker(key[1])
                /\ Evicted(key)]_vars

\* C10 witness: a confirm and a begin of one requester are in flight
\* together; the confirm has appended its marker and the begin's entry is
\* pending
C10_Witness ==
    /\ Len(inflight) = 2
    /\ inflight[1].handler = "record_tx"
    /\ inflight[1].reply.kind = "reset_done"
    /\ inflight[2].handler = "reset_cmd"
    /\ inflight[2].chat_id = inflight[1].chat_id
    /\ inflight[2].user_id = inflight[1].user_id
    /\ Len(resets) = 1
    /\ <<inflight[1].chat_id, inflight[1].user_id>> \in DOMAIN PENDING_RESETS

====
